---- MODULE Spec2Model ----
(***************************************************************************)
(* The JSON-file task store of the productivity agent system               *)
(* (tools/file_processor.py, class FileProcessorTool).                     *)
(*                                                                         *)
(* The persisted document data/tasks.json is the variable doc, a record    *)
(* {tasks, last_updated}.  Every handler of _run is one action: it reads   *)
(* the document, reads the wall clock wherever the code calls              *)
(* datetime.now(), writes the document back and leaves the serialized      *)
(* response in res.  The request it handled is kept in req.                *)
(*                                                                         *)
(* The wall clock is the environment: successive readings are              *)
(* non-decreasing and two readings may be equal.  Instants are integer     *)
(* ticks; TicksPerSec ticks make up one clock second.                      *)
(*                                                                         *)
(* history is the workflow log, data/workflow_history.json, which the      *)
(* task store never touches.  inflight holds, for each caller, how far its  *)
(* call has come when calls of several callers overlap; everywhere else a  *)
(* call is one step and every caller is idle.                              *)
(*                                                                         *)
(* Besides the task store the module holds prioritize_tasks_tool of        *)
(* agents/task_manager.py, a function of its argument, and the log and     *)
(* analyze operations of the workflow log.                                 *)
(***************************************************************************)
EXTENDS Integers, Sequences, FiniteSets, TLC

VARIABLES doc, now, req, res, history, inflight

vars == <<doc, now, req, res, history, inflight>>

\* ------------------------------------------------------------------ bounds
MaxTasks == 2
MaxClock == 1
MaxList == 2
MaxLog == 6

\* Clock ticks per second: strftime('%Y%m%d%H%M%S') truncates to the second,
\* isoformat() keeps the sub-second part.
TicksPerSec == 2

\* ------------------------------------------------------------ conversions
\* datetime.isoformat(): the text of an instant.
isoformat(t) == ToString(t)

\* The instants a deadline text of the model can denote.
IsoInstants == 0 .. (MaxClock + 1)

\* datetime.fromisoformat(s) succeeds.
CanParseIso(s) == \E t \in IsoInstants : isoformat(t) = s

\* datetime.fromisoformat(s), where it succeeds.
fromisoformat(s) == CHOOSE t \in IsoInstants : isoformat(t) = s

\* datetime.now().strftime('%Y%m%d%H%M%S')
strftime(t) == ToString(t \div TicksPerSec)

\* dict.get(k, d)
Get(p, k, d) == IF k \in DOMAIN p THEN p[k] ELSE d

\* k references of datetime.now() made one after the other: a sequence of
\* readings that starts no earlier than the last reading and never decreases.
Readings(k) ==
    { ts \in [1..k -> now..MaxClock] : \A i \in 1..(k-1) : ts[i] <= ts[i+1] }

\* --------------------------------------------------------------- requests
NoResponse == [none |-> TRUE]

\* The callers whose calls may overlap, and the state in which none has a
\* call under way.
Callers == {"a", "b"}

Idle == [c \in Callers |-> [pc |-> "idle"]]

\* ------------------------------------------------------- reading the file
\* The file data/tasks.json is a document [tasks, last_updated], or it is
\* absent, [missing |-> TRUE], or it holds the text of a document d with a
\* stray character after it, [damaged |-> d], which json.load rejects, or
\* it holds no text at all, [truncated |-> TRUE].
\* "with open(self.tasks_file, 'r') as f: data = json.load(f)" raises for
\* the last three.
ReadFails(file) == "tasks" \notin DOMAIN file

\* str(e) of the JSONDecodeError of a damaged file, its position left out.
DecodeMessage == "Extra data"

NoTasksFile == [error |-> "No tasks file found"]

\* An outer handler that lets the exception through.
Caught_Reraised(exception, message) == [raised |-> exception]

\* except Exception as e: return json.dumps({"error": str(e)})
Caught(exception, message) == [error |-> message]

\* The key of the KeyError that subscripting record task with each of keys
\* in turn raises, "" when task has them all.
RECURSIVE FirstLacking(_, _)
FirstLacking(task, keys) ==
    IF Len(keys) = 0 THEN ""
    ELSE IF Head(keys) \notin DOMAIN task THEN Head(keys)
    ELSE FirstLacking(task, Tail(keys))

\* The same for a loop over tasks that subscripts every record.
RECURSIVE KeyErrorIn(_, _)
KeyErrorIn(tasks, keys) ==
    IF Len(tasks) = 0 THEN ""
    ELSE IF FirstLacking(Head(tasks), keys) # "" THEN FirstLacking(Head(tasks), keys)
    ELSE KeyErrorIn(Tail(tasks), keys)

\* str(KeyError(k))
KeyErrorMessage(k) == "'" \o k \o "'"

SaveRequests ==
    { [action |-> "save"],
      [action |-> "save", title |-> "A", description |-> "d",
       priority |-> "high", status |-> "completed", deadline |-> isoformat(0),
       estimated_duration |-> 30] }

\* ------------------------------------------------------------------- save
\* task_id = f"task_{len(tasks) + 1}_{datetime.now().strftime(...)}"
TaskId(tasks, t) == "task_" \o ToString(Len(tasks) + 1) \o "_" \o strftime(t)

\* A save that reads the clock for updated_at before it does for created_at.
NewTask_UpdatedFirst(p, tasks, ts) ==
    [ id                 |-> TaskId(tasks, ts[1]),
      title              |-> Get(p, "title", "Untitled Task"),
      description        |-> Get(p, "description", ""),
      priority           |-> Get(p, "priority", "medium"),
      status             |-> Get(p, "status", "pending"),
      deadline           |-> Get(p, "deadline", ""),
      estimated_duration |-> Get(p, "estimated_duration", 60),
      tags               |-> Get(p, "tags", <<>>),
      created_at         |-> isoformat(ts[3]),
      updated_at         |-> isoformat(ts[2]) ]

\* A save that starts every record as pending, whatever status it is given.
NewTask_AlwaysPending(p, tasks, ts) ==
    [ id                 |-> TaskId(tasks, ts[1]),
      title              |-> Get(p, "title", "Untitled Task"),
      description        |-> Get(p, "description", ""),
      priority           |-> Get(p, "priority", "medium"),
      status             |-> "pending",
      deadline           |-> Get(p, "deadline", ""),
      estimated_duration |-> Get(p, "estimated_duration", 60),
      tags               |-> Get(p, "tags", <<>>),
      created_at         |-> isoformat(ts[2]),
      updated_at         |-> isoformat(ts[3]) ]

\* new_task = {...}: the id, the params.get of each field, the two stamps; ts
\* are the readings of the clock in the order the code takes them.
NewTask(p, tasks, ts) ==
    [ id                 |-> TaskId(tasks, ts[1]),
      title              |-> Get(p, "title", "Untitled Task"),
      description        |-> Get(p, "description", ""),
      priority           |-> Get(p, "priority", "medium"),
      status             |-> Get(p, "status", "pending"),
      deadline           |-> Get(p, "deadline", ""),
      estimated_duration |-> Get(p, "estimated_duration", 60),
      tags               |-> Get(p, "tags", <<>>),
      created_at         |-> isoformat(ts[2]),
      updated_at         |-> isoformat(ts[3]) ]

\* A save that puts the new record at the head of the list.
Prepended(tasks, new_task) == <<new_task>> \o tasks

\* tasks.append(new_task)
Appended(tasks, new_task) == Append(tasks, new_task)

\* try: data = json.load(f)  except: data = {"tasks": [], "last_updated": ""}
SaveData(file) ==
    IF ReadFails(file) THEN [tasks |-> <<>>, last_updated |-> ""] ELSE file

SaveTask(p) ==
    /\ Get(p, "action", "") = "save"
    /\ Len(SaveData(doc).tasks) < MaxTasks
    /\ \E ts \in Readings(4) :
          LET tasks    == SaveData(doc).tasks
              new_task == NewTask(p, tasks, ts)
          IN
          /\ doc' = [tasks |-> Appended(tasks, new_task),
                     last_updated |-> isoformat(ts[4])]
          /\ res' = [status |-> "success",
                     message |-> "Task saved successfully",
                     task |-> new_task]
          /\ now' = ts[4]
    /\ req' = p
    /\ UNCHANGED <<history, inflight>>

\* ----------------------------------------------------------------- update
\* The fields a request may carry besides action and task_id; the second
\* carries every key of a record.
UpdateFields ==
    { [status |-> "pending"],
      [title |-> "A", description |-> "d", priority |-> "high",
       status |-> "completed", deadline |-> isoformat(0),
       estimated_duration |-> 30, tags |-> <<"x">>,
       id |-> "task_9_9", created_at |-> isoformat(MaxClock),
       updated_at |-> isoformat(0)] }

\* Identifiers a caller may name: those in the store, the empty string and
\* one that was never issued.
TaskIdInputs == { doc.tasks[i].id : i \in 1..Len(doc.tasks) } \cup {"", "task_9_9"}

UpdateRequests ==
    { [action |-> "update", status |-> "pending"] } \cup
    { [action |-> "update", task_id |-> id] @@ f :
          id \in TaskIdInputs, f \in UpdateFields }

DeleteRequests ==
    { [action |-> "delete"] } \cup
    { [action |-> "delete", task_id |-> id] : id \in TaskIdInputs }

\* not task_id: the key is absent (None) or the empty string
NoTaskId(p) == "task_id" \notin DOMAIN p \/ p.task_id = ""

NotFound(task_id) == [error |-> "Task with id " \o task_id \o " not found"]

\* A search that takes every record for the one named.
Matches_IgnoresId(tasks, task_id) == 1..Len(tasks)

\* Positions of the records carrying task_id.
Matches(tasks, task_id) == { i \in 1..Len(tasks) : tasks[i].id = task_id }

\* The record the loop "for task in tasks: if task['id'] == task_id" stops at.
FirstMatch(tasks, task_id) ==
    CHOOSE i \in Matches(tasks, task_id) :
        \A j \in Matches(tasks, task_id) : i <= j

\* task['id'] raises in the loop: a record without an id is reached before
\* any record carrying task_id.
UpdateKeyError(tasks, task_id) ==
    \E i \in 1..Len(tasks) :
        /\ "id" \notin DOMAIN tasks[i]
        /\ \A j \in 1..(i-1) : "id" \in DOMAIN tasks[j] /\ tasks[j].id # task_id

\* An update that copies every key of the request into the record.
UpdatedTask_CopiesAll(task, p, t) ==
    [ id                 |-> Get(p, "id", task.id),
      title              |-> Get(p, "title", task.title),
      description        |-> Get(p, "description", task.description),
      priority           |-> Get(p, "priority", task.priority),
      status             |-> Get(p, "status", task.status),
      deadline           |-> Get(p, "deadline", task.deadline),
      estimated_duration |-> Get(p, "estimated_duration", task.estimated_duration),
      tags               |-> Get(p, "tags", task.tags),
      created_at         |-> Get(p, "created_at", task.created_at),
      updated_at         |-> isoformat(t) ]

\* An update that leaves updated_at as it was.
UpdatedTask_KeepsStamp(task, p, t) ==
    [ id                 |-> task.id,
      title              |-> Get(p, "title", task.title),
      description        |-> Get(p, "description", task.description),
      priority           |-> Get(p, "priority", task.priority),
      status             |-> Get(p, "status", task.status),
      deadline           |-> Get(p, "deadline", task.deadline),
      estimated_duration |-> Get(p, "estimated_duration", task.estimated_duration),
      tags               |-> task.tags,
      created_at         |-> task.created_at,
      updated_at         |-> task.updated_at ]

\* The body of the loop for the matching record: the 'k' in params tests,
\* then updated_at.
UpdatedTask(task, p, t) ==
    [ id                 |-> task.id,
      title              |-> Get(p, "title", task.title),
      description        |-> Get(p, "description", task.description),
      priority           |-> Get(p, "priority", task.priority),
      status             |-> Get(p, "status", task.status),
      deadline           |-> Get(p, "deadline", task.deadline),
      estimated_duration |-> Get(p, "estimated_duration", task.estimated_duration),
      tags               |-> task.tags,
      created_at         |-> task.created_at,
      updated_at         |-> isoformat(t) ]

UpdateTask(p) ==
    /\ Get(p, "action", "") = "update"
    /\ req' = p
    /\ UNCHANGED <<history, inflight>>
    /\ IF NoTaskId(p)
       THEN /\ res' = [error |-> "task_id is required"]
            /\ UNCHANGED <<doc, now>>
       ELSE IF ReadFails(doc)
       THEN /\ res' = NoTasksFile
            /\ UNCHANGED <<doc, now>>
       ELSE IF UpdateKeyError(doc.tasks, p.task_id)
       THEN /\ res' = Caught("KeyError", KeyErrorMessage("id"))
            /\ UNCHANGED <<doc, now>>
       ELSE IF Matches(doc.tasks, p.task_id) = {}
       THEN /\ res' = NotFound(p.task_id)
            /\ UNCHANGED <<doc, now>>
       ELSE \E ts \in Readings(2) :
               LET i    == FirstMatch(doc.tasks, p.task_id)
                   task == UpdatedTask(doc.tasks[i], p, ts[1])
               IN
               /\ doc' = [tasks |-> [doc.tasks EXCEPT ![i] = task],
                          last_updated |-> isoformat(ts[2])]
               /\ res' = [status |-> "success",
                          message |-> "Task updated successfully",
                          task |-> task]
               /\ now' = ts[2]

\* ----------------------------------------------------------------- delete
\* A delete that removes only the first record carrying task_id.
Remaining_FirstOnly(tasks, task_id) ==
    IF \A i \in 1..Len(tasks) : tasks[i].id # task_id
    THEN tasks
    ELSE LET k == CHOOSE i \in 1..Len(tasks) :
                      tasks[i].id = task_id /\ \A j \in 1..(i-1) : tasks[j].id # task_id
         IN  SubSeq(tasks, 1, k - 1) \o SubSeq(tasks, k + 1, Len(tasks))

\* tasks = [t for t in tasks if t['id'] != task_id]
Remaining(tasks, task_id) == SelectSeq(tasks, LAMBDA t : t.id # task_id)

DeleteTask(p) ==
    /\ Get(p, "action", "") = "delete"
    /\ req' = p
    /\ UNCHANGED <<history, inflight>>
    /\ IF NoTaskId(p)
       THEN /\ res' = [error |-> "task_id is required"]
            /\ UNCHANGED <<doc, now>>
       ELSE IF ReadFails(doc)
       THEN /\ res' = NoTasksFile
            /\ UNCHANGED <<doc, now>>
       ELSE IF KeyErrorIn(doc.tasks, <<"id">>) # ""
       THEN /\ res' = Caught("KeyError", KeyErrorMessage("id"))
            /\ UNCHANGED <<doc, now>>
       ELSE LET tasks == Remaining(doc.tasks, p.task_id) IN
            IF Len(tasks) = Len(doc.tasks)
            THEN /\ res' = NotFound(p.task_id)
                 /\ UNCHANGED <<doc, now>>
            ELSE \E ts \in Readings(1) :
                    /\ doc' = [tasks |-> tasks, last_updated |-> isoformat(ts[1])]
                    /\ res' = [status |-> "success",
                               message |-> "Task " \o p.task_id \o " deleted successfully",
                               remaining_tasks |-> Len(tasks)]
                    /\ now' = ts[1]

\* ------------------------------------------------------------------- load
LoadRequests ==
    { [action |-> "load"],
      [action |-> "load", status |-> "pending"],
      [action |-> "load", priority |-> "high"],
      [action |-> "load", status |-> "pending", priority |-> "high"],
      [action |-> "load", status |-> ""],
      [action |-> "load", status |-> "completed", priority |-> ""] }

\* "if status_filter:" with status_filter = params.get('status'): the filter
\* applies when the key is present and its value is truthy.
FilterApplies(p, k) == k \in DOMAIN p /\ p[k] # ""

\* The two list comprehensions of _load_tasks.
Filtered(tasks, p) ==
    LET byStatus ==
            IF FilterApplies(p, "status")
            THEN SelectSeq(tasks, LAMBDA t : Get(t, "status", "") = p.status)
            ELSE tasks
    IN  IF FilterApplies(p, "priority")
        THEN SelectSeq(byStatus, LAMBDA t : Get(t, "priority", "") = p.priority)
        ELSE byStatus

\* The response of _load_tasks on the document data.
LoadResponse(data, p) ==
    LET tasks == Filtered(data.tasks, p) IN
    [tasks |-> tasks, count |-> Len(tasks), last_updated |-> data.last_updated]

\* A load that creates the file when it finds none.
LoadTasks_CreatesFile(p) ==
    /\ Get(p, "action", "") = "load"
    /\ req' = p
    /\ UNCHANGED <<history, inflight>>
    /\ res' = IF "missing" \in DOMAIN doc THEN [tasks |-> <<>>, count |-> 0]
              ELSE IF ReadFails(doc) THEN [error |-> DecodeMessage]
              ELSE LoadResponse(doc, p)
    /\ doc' = IF "missing" \in DOMAIN doc
              THEN [tasks |-> <<>>, last_updated |-> isoformat(now)]
              ELSE doc
    /\ UNCHANGED now

LoadTasks(p) ==
    /\ Get(p, "action", "") = "load"
    /\ req' = p
    /\ UNCHANGED <<history, inflight>>
    /\ res' = IF "missing" \in DOMAIN doc THEN [tasks |-> <<>>, count |-> 0]
              ELSE IF ReadFails(doc) THEN [error |-> DecodeMessage]
              ELSE LoadResponse(doc, p)
    /\ UNCHANGED <<doc, now>>

\* ----------------------------------------------------------------- report
ReportRequests == { [action |-> "report"] }

\* by_status / by_priority: a count for every value of field k that occurs.
CountBy(tasks, k, d) ==
    [ v \in { Get(tasks[i], k, d) : i \in 1..Len(tasks) } |->
        Cardinality({ i \in 1..Len(tasks) : Get(tasks[i], k, d) = v }) ]

\* An overdue test that forgets the status.
IsOverdue_CountsCompleted(task, t) ==
    LET deadline == Get(task, "deadline", "") IN
    /\ deadline # ""
    /\ CanParseIso(deadline)
    /\ fromisoformat(deadline) < t

\* The overdue test of the loop body for one record, at the instant t read
\* before the loop.
IsOverdue(task, t) ==
    LET deadline == Get(task, "deadline", "") IN
    /\ deadline # ""
    /\ CanParseIso(deadline)
    /\ fromisoformat(deadline) < t
    /\ Get(task, "status", "") # "completed"

Overdue(tasks, t) == Cardinality({ i \in 1..Len(tasks) : IsOverdue(tasks[i], t) })

\* Floats.  A float is held as five digits in base Limb, the first one
\* unbounded, and a count s of binary places: its value is the number the
\* digits denote times 2^(-52 - s).  A float of the machine has a significand
\* of 53 binary digits.
Limb == 8192

\* The digits with every carry taken into the digit before.
Carried(l) ==
    LET a5 == l[5]
        a4 == l[4] + a5 \div Limb
        a3 == l[3] + a4 \div Limb
        a2 == l[2] + a3 \div Limb
        a1 == l[1] + a2 \div Limb
    IN  <<a1, a2 % Limb, a3 % Limb, a4 % Limb, a5 % Limb>>

\* The number of binary digits of v.
BitLength(v) == CHOOSE k \in 1..30 : 2^(k-1) <= v /\ v < 2^k

\* The doublings that take n to d or more.
Doublings(n, d) ==
    CHOOSE s \in 0..30 : n * 2^s >= d /\ (s = 0 \/ n * 2^(s-1) < d)

\* n / d of two ints, 0 < n <= d < 2^18: the float nearest to the quotient,
\* a tie going to the even significand.
TrueDivide(n, d) ==
    LET s  == Doublings(n, d)
        r0 == n * 2^s - d
        q1 == (r0 * Limb) \div d
        r1 == (r0 * Limb) % d
        q2 == (r1 * Limb) \div d
        r2 == (r1 * Limb) % d
        q3 == (r2 * Limb) \div d
        r3 == (r2 * Limb) % d
        q4 == (r3 * Limb) \div d
        r4 == (r3 * Limb) % d
        up == 2 * r4 > d \/ (2 * r4 = d /\ q4 % 2 = 1)
    IN  [m |-> Carried(<<1, q1, q2, q3, q4 + (IF up THEN 1 ELSE 0)>>), s |-> s]

\* x * c of a float and an int c < Limb: the float nearest to the product.
Multiply(x, c) ==
    LET p    == Carried([i \in 1..5 |-> x.m[i] * c])
        k    == BitLength(p[1]) - 1
        low  == p[5] % 2^k
        half == 2^(k-1)
        up   == k > 0 /\ (low > half \/ (low = half /\ (p[5] \div 2^k) % 2 = 1))
    IN  [m |-> Carried([p EXCEPT ![5] = p[5] - low + (IF up THEN 2^k ELSE 0)]),
         s |-> x.s]

\* round(x, 1) in tenths: the decimal of one place nearest to the value of
\* the float, a tie going to the even digit.
RoundTenths(x) ==
    LET y     == Carried([i \in 1..5 |-> x.m[i] * 10])
        whole == y[1] \div 2^x.s
        part  == IF x.s = 0 THEN y[2] ELSE y[1] % 2^x.s
        half  == IF x.s = 0 THEN Limb \div 2 ELSE 2^(x.s - 1)
        more  == \E i \in (IF x.s = 0 THEN 3 ELSE 2)..5 : y[i] # 0
        up    == part > half \/ (part = half /\ (more \/ whole % 2 = 1))
    IN  IF up THEN whole + 1 ELSE whole

\* round(n / d * 100, 1) in tenths of a percent, for 0 <= n <= d and d > 0:
\* the quotient and the product are each rounded to a float, so a count whose
\* exact percentage is a tie need not round as one.
CompletionRate(n, d) ==
    IF n = 0 THEN 0 ELSE RoundTenths(Multiply(TrueDivide(n, d), 100))

GenerateReport(p) ==
    /\ Get(p, "action", "") = "report"
    /\ req' = p
    /\ UNCHANGED <<history, inflight>>
    /\ IF ReadFails(doc)
       THEN /\ res' = NoTasksFile
            /\ UNCHANGED <<doc, now>>
       ELSE IF Len(doc.tasks) = 0
       THEN /\ res' = [report |-> "No tasks found", summary |-> [total |-> 0]]
            /\ UNCHANGED <<doc, now>>
       ELSE \E ts \in Readings(2) :
               LET by_status == CountBy(doc.tasks, "status", "pending") IN
               /\ res' = [summary |->
                            [total_tasks   |-> Len(doc.tasks),
                             by_status     |-> by_status,
                             by_priority   |-> CountBy(doc.tasks, "priority", "medium"),
                             overdue_tasks |-> Overdue(doc.tasks, ts[1])],
                          completion_rate |->
                              CompletionRate(Get(by_status, "completed", 0), Len(doc.tasks)),
                          generated_at |-> isoformat(ts[2])]
               /\ now' = ts[2]
               /\ UNCHANGED doc

\* ----------------------------------------------------------------- export
ExportRequests ==
    { [action |-> "export"],
      [action |-> "export", format |-> "json"],
      [action |-> "export", format |-> "csv"] }

\* The keys the csv row subscripts, in the order it does.
RowKeys == <<"id", "title", "priority", "status">>

\* f"{task['id']},{task['title']},{task['priority']},{task['status']},{task.get('deadline', '')}"
CsvRow(task) ==
    task.id \o "," \o task.title \o "," \o task.priority \o "," \o task.status
        \o "," \o Get(task, "deadline", "")

\* "\n".join(csv_lines)
RECURSIVE JoinLines(_)
JoinLines(lines) ==
    IF Len(lines) = 0 THEN ""
    ELSE IF Len(lines) = 1 THEN lines[1]
    ELSE lines[1] \o "\n" \o JoinLines(Tail(lines))

\* An export that lists the newest record first.
ExportResponse_NewestFirst(tasks, format_type) ==
    IF format_type = "csv"
    THEN [format |-> "csv",
          data |-> JoinLines(<<"ID,Title,Priority,Status,Deadline">>
                               \o [i \in 1..Len(tasks) |-> CsvRow(tasks[i])]),
          count |-> Len(tasks)]
    ELSE [format |-> "json",
          data |-> [i \in 1..Len(tasks) |-> tasks[Len(tasks) + 1 - i]],
          count |-> Len(tasks)]

\* The response of _export_tasks for the record list of the document.
ExportResponse(tasks, format_type) ==
    IF format_type = "csv"
    THEN [format |-> "csv",
          data |-> JoinLines(<<"ID,Title,Priority,Status,Deadline">>
                               \o [i \in 1..Len(tasks) |-> CsvRow(tasks[i])]),
          count |-> Len(tasks)]
    ELSE [format |-> "json", data |-> tasks, count |-> Len(tasks)]

ExportTasks(p) ==
    /\ Get(p, "action", "") = "export"
    /\ req' = p
    /\ UNCHANGED <<history, inflight>>
    /\ res' = IF ReadFails(doc) THEN NoTasksFile
              ELSE IF Get(p, "format", "json") = "csv" /\ KeyErrorIn(doc.tasks, RowKeys) # ""
              THEN Caught("KeyError", KeyErrorMessage(KeyErrorIn(doc.tasks, RowKeys)))
              ELSE ExportResponse(doc.tasks, Get(p, "format", "json"))
    /\ UNCHANGED <<doc, now>>

\* ------------------------------------------------------------------- spec
Init ==
    /\ now = 0
    /\ doc = [tasks |-> <<>>, last_updated |-> isoformat(0)]
    /\ req = [action |-> ""]
    /\ res = NoResponse
    /\ history = <<>>
    /\ inflight = Idle

Next ==
    \/ \E p \in LoadRequests : LoadTasks(p)
    \/ \E p \in SaveRequests : SaveTask(p)
    \/ \E p \in UpdateRequests : UpdateTask(p)
    \/ \E p \in DeleteRequests : DeleteTask(p)
    \/ \E p \in ReportRequests : GenerateReport(p)
    \/ \E p \in ExportRequests : ExportTasks(p)

Spec == Init /\ [][Next]_vars

\* ------------------------------------------------------------ query spec
\* The read operations over stores of records saved with a wider choice of
\* status, priority and deadline.  The store is what a run of saves, all made
\* at instant 0, leaves behind; the clock has since reached any instant.
Opt(ps, k, vs) == ps \cup { (k :> v) @@ p : p \in ps, v \in vs }

QuerySaveRequests ==
    Opt(Opt(Opt({ [action |-> "save"] },
                "status", {"completed"}),
            "priority", {"high"}),
        "deadline", {isoformat(0), isoformat(MaxClock), "next friday"})

RECURSIVE SavedAll(_)
SavedAll(ps) ==
    IF Len(ps) = 0 THEN <<>>
    ELSE LET tasks == SavedAll(SubSeq(ps, 1, Len(ps) - 1)) IN
         Appended(tasks, NewTask(ps[Len(ps)], tasks, [i \in 1..4 |-> 0]))

QueryLoadRequests ==
    Opt(Opt({ [action |-> "load"] },
            "status", {"pending", "completed", ""}),
        "priority", {"high", ""})

InitQuery ==
    /\ now \in 0..MaxClock
    /\ \E n \in 0..MaxTasks :
          \E ps \in [1..n -> QuerySaveRequests] :
              doc = [tasks |-> SavedAll(ps), last_updated |-> isoformat(0)]
    /\ req = [action |-> ""]
    /\ res = NoResponse
    /\ history = <<>>
    /\ inflight = Idle

NextQuery ==
    \/ \E p \in QueryLoadRequests : LoadTasks(p)
    \/ \E p \in ReportRequests : GenerateReport(p)
    \/ \E p \in ExportRequests : ExportTasks(p)

SpecQuery == InitQuery /\ [][NextQuery]_vars

\* ------------------------------------------------------------- save spec
\* Saves alone, from the empty store, with each of the defaulted fields
\* supplied on its own, none supplied, and all supplied.
FieldSaveRequests ==
    { [action |-> "save"],
      [action |-> "save", title |-> "A"],
      [action |-> "save", priority |-> "high"],
      [action |-> "save", status |-> "completed"],
      [action |-> "save", estimated_duration |-> 30],
      [action |-> "save", tags |-> <<"x">>],
      [action |-> "save", title |-> "A", description |-> "d",
       priority |-> "high", status |-> "completed", deadline |-> isoformat(0),
       estimated_duration |-> 30, tags |-> <<"x", "y">>] }

NextSave == \E p \in FieldSaveRequests : SaveTask(p)

SpecSave == Init /\ [][NextSave]_vars

\* A document of one record saved with the defaults.
Stored ==
    [tasks |-> SavedAll(<<[action |-> "save"]>>), last_updated |-> isoformat(0)]

\* ------------------------------------------------------- concurrent spec
\* Two callers each make one save on the one file, with nothing to keep
\* their calls apart: a save reads the file, reads the clock four times as it
\* builds the record and the new document from what it read, opens the file
\* for writing, which empties it, and writes the document as it closes the
\* file; the steps of the two calls fall in any order.
\* The file just opened with mode 'w': it holds no text.
Truncated == [truncated |-> TRUE]

\* The other of the two callers.
Other(c) == CHOOSE o \in Callers : o # c

\* len(datetime.isoformat()): the sub-second part is written unless it is zero.
IsoLength(t) == IF t % TicksPerSec = 0 THEN 19 ELSE 26

\* len of strftime('%Y%m%d%H%M%S').
StrftimeLength == 14

\* The length of the text json.dump writes for a string: the text of an
\* instant stands for its isoformat.
StringLength(s) ==
    (IF CanParseIso(s) THEN IsoLength(fromisoformat(s)) ELSE Len(s)) + 2

\* The same for an id, whose last part stands for the strftime text.
IdLength(id) == Len(id) - Len(strftime(0)) + StrftimeLength + 2

\* The same for a list of strings at the indent of a record's value.
RECURSIVE CharsOf(_)
CharsOf(strings) ==
    IF Len(strings) = 0 THEN 0 ELSE Len(Head(strings)) + CharsOf(Tail(strings))

TagsLength(tags) ==
    IF Len(tags) = 0 THEN 2
    ELSE 2 + CharsOf(tags) + 12 * Len(tags) - 1 + 7

\* A line '<indent>"key": value,\n' of the text, the comma left out of the
\* last line of an object.
KeyLine(indent, key, width, last) ==
    indent + Len(key) + 4 + width + (IF last THEN 1 ELSE 2)

\* The lines of a record, from '    {\n' to '    }'.
TaskLength(task) ==
    6 + KeyLine(6, "id", IdLength(task.id), FALSE)
      + KeyLine(6, "title", StringLength(task.title), FALSE)
      + KeyLine(6, "description", StringLength(task.description), FALSE)
      + KeyLine(6, "priority", StringLength(task.priority), FALSE)
      + KeyLine(6, "status", StringLength(task.status), FALSE)
      + KeyLine(6, "deadline", StringLength(task.deadline), FALSE)
      + KeyLine(6, "estimated_duration", Len(ToString(task.estimated_duration)), FALSE)
      + KeyLine(6, "tags", TagsLength(task.tags), FALSE)
      + KeyLine(6, "created_at", StringLength(task.created_at), FALSE)
      + KeyLine(6, "updated_at", StringLength(task.updated_at), TRUE)
      + 5

RECURSIVE TasksLength(_)
TasksLength(tasks) ==
    IF Len(tasks) = 0 THEN 0 ELSE TaskLength(Head(tasks)) + TasksLength(Tail(tasks))

\* The number of characters json.dump(data, f, indent=2) writes.
DumpLength(data) ==
    2 + 11
      + (IF Len(data.tasks) = 0 THEN 2
         ELSE 2 + TasksLength(data.tasks) + 2 * Len(data.tasks) - 1 + 3)
      + 2 + KeyLine(2, "last_updated", StringLength(data.last_updated), TRUE) + 1

\* The number of characters the file holds.
Size(file) == IF file = Truncated THEN 0 ELSE DumpLength(file)

\* json.dump(data, f, indent=2) and the close of f: the text goes over the
\* file from its start.  A file another call filled since this one opened it
\* keeps what lies beyond the text: the text of data with the end of the
\* longer document after it.
Written(data, file) ==
    IF Size(file) <= DumpLength(data) THEN data ELSE [damaged |-> data]

\* with open(self.tasks_file, 'r') as f: data = json.load(f); met is where
\* the other call stood at that moment.
SaveRead(c, p) ==
    /\ inflight[c].pc = "idle"
    /\ Get(p, "action", "") = "save"
    /\ Len(SaveData(doc).tasks) < MaxTasks
    /\ inflight' = [inflight EXCEPT ![c] =
                       [pc |-> "read", params |-> p, read |-> SaveData(doc),
                        met |-> inflight[Other(c)].pc, ts |-> <<>>]]
    /\ UNCHANGED <<doc, now, req, res, history>>

\* The next of the four readings of the clock, for the id, created_at,
\* updated_at and data['last_updated']; with the fourth the record and the
\* document stand built.
SaveBuild(c) ==
    /\ inflight[c].pc = "read"
    /\ \E t \in now..MaxClock :
          LET call     == inflight[c]
              ts       == Append(call.ts, t)
              new_task == NewTask(call.params, call.read.tasks, ts)
          IN
          /\ inflight' = [inflight EXCEPT ![c] =
                             IF Len(ts) < 4 THEN [call EXCEPT !.ts = ts]
                             ELSE [pc |-> "built", params |-> call.params,
                                   read |-> call.read, met |-> call.met,
                                   task |-> new_task,
                                   data |-> [tasks |-> Appended(call.read.tasks, new_task),
                                             last_updated |-> isoformat(ts[4])]]]
          /\ now' = t
    /\ UNCHANGED <<doc, req, res, history>>

\* open(self.tasks_file, 'w')
SaveOpen(c) ==
    /\ inflight[c].pc = "built"
    /\ doc' = Truncated
    /\ inflight' = [inflight EXCEPT ![c].pc = "opened"]
    /\ UNCHANGED <<now, req, res, history>>

\* The write of the file and the return.
SaveWrite(c) ==
    /\ inflight[c].pc = "opened"
    /\ LET call     == inflight[c]
           response == [status |-> "success",
                        message |-> "Task saved successfully",
                        task |-> call.task]
       IN
       /\ doc' = Written(call.data, doc)
       /\ req' = call.params
       /\ res' = response
       /\ inflight' = [inflight EXCEPT ![c] =
                          [pc |-> "done", params |-> call.params,
                           read |-> call.read, met |-> call.met,
                           task |-> call.task, response |-> response]]
    /\ UNCHANGED <<now, history>>

InitConcurrent ==
    /\ now = 0
    /\ doc \in { [tasks |-> <<>>, last_updated |-> isoformat(0)], Stored }
    /\ req = [action |-> ""]
    /\ res = NoResponse
    /\ history = <<>>
    /\ inflight = Idle

NextConcurrent ==
    \/ \E c \in Callers : \E p \in SaveRequests : SaveRead(c, p)
    \/ \E c \in Callers : SaveBuild(c)
    \/ \E c \in Callers : SaveOpen(c)
    \/ \E c \in Callers : SaveWrite(c)

SpecConcurrent == InitConcurrent /\ [][NextConcurrent]_vars

\* ------------------------------------------------------------ fault spec
\* The construction of the tool and _run on every kind of input string, over
\* files that are readable, absent, damaged, or hold a record written without
\* the keys save gives.  An input
\* that parses to an object is the request record itself; any other input is
\* [raw |-> text].
MalformedInputs == { "{bad", "" }

NonObjectInputs == { "[1, 2]", "null", "42" }

\* type(json.loads(text)).__name__ for the texts of NonObjectInputs.
TypeName(text) ==
    CASE text = "[1, 2]" -> "list"
      [] text = "null"   -> "NoneType"
      [] text = "42"     -> "int"

\* json.loads raises JSONDecodeError, or params.get raises AttributeError.
RunUnparsed(text) ==
    /\ req' = [raw |-> text]
    /\ res' = IF text \in MalformedInputs
              THEN [error |-> "Invalid JSON input"]
              ELSE Caught("AttributeError",
                          "'" \o TypeName(text) \o "' object has no attribute 'get'")
    /\ UNCHANGED <<doc, now, history, inflight>>

Actions == {"load", "save", "update", "delete", "report", "export"}

InvalidActionRequests == { [action |-> "frob"], [title |-> "A"] }

\* The else branch of the dispatch.
RunInvalidAction(p) ==
    /\ Get(p, "action", "") \notin Actions
    /\ req' = p
    /\ res' = [error |-> "Invalid action"]
    /\ UNCHANGED <<doc, now, history, inflight>>

FaultFiles ==
    { [tasks |-> <<>>, last_updated |-> isoformat(0)],
      Stored,
      [tasks |-> <<[title |-> "A"]>>, last_updated |-> isoformat(0)],
      [missing |-> TRUE],
      [damaged |-> Stored] }

\* Identifiers a caller may name: those in the file, and that of Stored.
FaultIdInputs ==
    { Stored.tasks[1].id } \cup
    (IF ReadFails(doc) THEN {}
     ELSE { doc.tasks[i].id : i \in { j \in 1..Len(doc.tasks) : "id" \in DOMAIN doc.tasks[j] } })

FaultUpdateRequests ==
    { [action |-> "update", task_id |-> id, status |-> "completed"] : id \in FaultIdInputs }

FaultDeleteRequests ==
    { [action |-> "delete", task_id |-> id] : id \in FaultIdInputs }

\* FileProcessorTool(): __init__ calls _ensure_data_file, which creates the
\* file, an empty store stamped with the clock, when there is none, and leaves
\* a file that exists as it is; nothing is returned.
Constructed == [constructor |-> "FileProcessorTool"]

EnsureDataFile ==
    /\ req' = Constructed
    /\ res' = NoResponse
    /\ IF "missing" \in DOMAIN doc
       THEN \E ts \in Readings(1) :
               /\ doc' = [tasks |-> <<>>, last_updated |-> isoformat(ts[1])]
               /\ now' = ts[1]
       ELSE UNCHANGED <<doc, now>>
    /\ UNCHANGED <<history, inflight>>

InitFault ==
    /\ now = 0
    /\ doc \in FaultFiles
    /\ req = [action |-> ""]
    /\ res = NoResponse
    /\ history = <<>>
    /\ inflight = Idle

NextFault ==
    \/ EnsureDataFile
    \/ \E text \in MalformedInputs \cup NonObjectInputs : RunUnparsed(text)
    \/ \E p \in InvalidActionRequests : RunInvalidAction(p)
    \/ \E p \in LoadRequests : LoadTasks(p)
    \/ SaveTask([action |-> "save"])
    \/ \E p \in FaultUpdateRequests : UpdateTask(p)
    \/ \E p \in FaultDeleteRequests : DeleteTask(p)
    \/ \E p \in ReportRequests : GenerateReport(p)
    \/ \E p \in ExportRequests : ExportTasks(p)

SpecFault == InitFault /\ [][NextFault]_vars

\* ------------------------------------------------------- prioritize spec
\* prioritize_tasks_tool of agents/task_manager.py, a function of its
\* argument: req is the argument, res the response once it has returned.  Scores are in tenths:
\* for whole urgency and importance 0.4*urgency + 0.6*importance is a whole
\* number of tenths and round(..., 2) returns the float nearest to it, so two
\* scores are equal as floats exactly when their tenths are.
Scale == {1, 3, 6, 7, 8, 10}

\* The tasks of the argument: urgency and importance on the scale, or a task
\* that carries neither.
PrioritizeInputs ==
    { [urgency |-> u, importance |-> i] : u \in Scale, i \in Scale }
        \cup { [title |-> "t"] }

TaskLists == UNION { [1..n -> PrioritizeInputs] : n \in 0..MaxList }

\* A score that weighs the two axes alike.
PriorityScore_EqualWeights(urgency, importance) == 4 * urgency + 4 * importance

\* round((urgency * 0.4) + (importance * 0.6), 2), in tenths
PriorityScore(urgency, importance) == 4 * urgency + 6 * importance

\* A labelling that takes 6 itself for high.
Quadrant_AtLeastSix(urgency, importance) ==
    IF urgency >= 6 /\ importance >= 6
    THEN [quadrant |-> "DO FIRST - Urgent & Important", priority_level |-> "critical"]
    ELSE IF urgency < 6 /\ importance >= 6
    THEN [quadrant |-> "SCHEDULE - Not Urgent but Important", priority_level |-> "high"]
    ELSE IF urgency >= 6 /\ importance < 6
    THEN [quadrant |-> "DELEGATE - Urgent but Not Important", priority_level |-> "medium"]
    ELSE [quadrant |-> "ELIMINATE - Neither Urgent nor Important", priority_level |-> "low"]

\* The if / elif chain that assigns quadrant and priority_level.
Quadrant(urgency, importance) ==
    IF urgency > 6 /\ importance > 6
    THEN [quadrant |-> "DO FIRST - Urgent & Important", priority_level |-> "critical"]
    ELSE IF urgency <= 6 /\ importance > 6
    THEN [quadrant |-> "SCHEDULE - Not Urgent but Important", priority_level |-> "high"]
    ELSE IF urgency > 6 /\ importance <= 6
    THEN [quadrant |-> "DELEGATE - Urgent but Not Important", priority_level |-> "medium"]
    ELSE [quadrant |-> "ELIMINATE - Neither Urgent nor Important", priority_level |-> "low"]

\* The body of the loop: the task with its three new keys.
Labelled(task) ==
    LET urgency    == Get(task, "urgency", 5)
        importance == Get(task, "importance", 5)
    IN  [priority_score |-> PriorityScore(urgency, importance)]
            @@ Quadrant(urgency, importance) @@ task

\* An insertion that puts a task ahead of those of equal score.
SortInsert_TiesFirst(sorted, task) ==
    LET k == Cardinality({ i \in 1..Len(sorted) :
                             sorted[i].priority_score > task.priority_score })
    IN  SubSeq(sorted, 1, k) \o <<task>> \o SubSeq(sorted, k + 1, Len(sorted))

\* An insertion for ascending order.
SortInsert_Ascending(sorted, task) ==
    LET k == Cardinality({ i \in 1..Len(sorted) :
                             sorted[i].priority_score <= task.priority_score })
    IN  SubSeq(sorted, 1, k) \o <<task>> \o SubSeq(sorted, k + 1, Len(sorted))

\* The place of the next task among those already sorted: behind every task
\* whose score is at least its own, as list.sort, which is stable, leaves it
\* under reverse=True.
SortInsert(sorted, task) ==
    LET k == Cardinality({ i \in 1..Len(sorted) :
                             sorted[i].priority_score >= task.priority_score })
    IN  SubSeq(sorted, 1, k) \o <<task>> \o SubSeq(sorted, k + 1, Len(sorted))

\* tasks.sort(key=lambda x: x['priority_score'], reverse=True)
RECURSIVE SortedByScore(_)
SortedByScore(tasks) ==
    IF Len(tasks) = 0 THEN <<>>
    ELSE SortInsert(SortedByScore(SubSeq(tasks, 1, Len(tasks) - 1)), tasks[Len(tasks)])

\* The call has been made with argument req and has not returned yet.
InitPrioritize ==
    /\ now = 0
    /\ doc = [tasks |-> <<>>, last_updated |-> isoformat(0)]
    /\ req \in { [tasks_json |-> tasks] : tasks \in TaskLists }
    /\ res = NoResponse
    /\ history = <<>>
    /\ inflight = Idle

Prioritize ==
    /\ "tasks_json" \in DOMAIN req
    /\ res = NoResponse
    /\ LET tasks == req.tasks_json IN
       res' = [prioritized_tasks |->
                  SortedByScore([i \in 1..Len(tasks) |-> Labelled(tasks[i])]),
               recommendation |->
                  "Focus on 'DO FIRST' tasks immediately, schedule time for 'SCHEDULE' tasks"]
    /\ UNCHANGED <<doc, now, req, history, inflight>>

NextPrioritize == Prioritize

SpecPrioritize == InitPrioritize /\ [][NextPrioritize]_vars

\* --------------------------------------------------------- workflow spec
\* The workflow history log, tools/workflow_optimizer.py, as its
\* specification and the calls of tests/test_system.py describe it.  Instants
\* are whole days here, now is today, and nothing moves the clock.
MIN_HISTORY_ENTRIES == 5

\* The days each time_range reaches back from now.
WindowDays(time_range) ==
    CASE time_range = "day"   -> 1
      [] time_range = "week"  -> 7
      [] time_range = "month" -> 30

\* Log requests of two users, completed three or ten days ago.
LogRequests ==
    { [action |-> "log", user_id |-> "u1", task_id |-> "t1", completed_at |-> 0 - 3,
       duration_minutes |-> 30, priority |-> "high", was_on_time |-> TRUE],
      [action |-> "log", user_id |-> "u1", task_id |-> "t1", completed_at |-> 0 - 3,
       duration_minutes |-> 60, priority |-> "medium", was_on_time |-> FALSE],
      [action |-> "log", user_id |-> "u1", task_id |-> "t2", completed_at |-> 0 - 10,
       duration_minutes |-> 60, priority |-> "medium", was_on_time |-> TRUE],
      [action |-> "log", user_id |-> "u2", task_id |-> "t1", completed_at |-> 0 - 3,
       duration_minutes |-> 45, priority |-> "low", was_on_time |-> TRUE] }

AnalyzeRequests ==
    { [action |-> "analyze", user_id |-> u, time_range |-> r] :
          u \in {"u1", "u2"}, r \in {"week", "month"} }

\* The entry a log request leaves in the log: its fields without the action.
Entry(p) == [k \in DOMAIN p \ {"action"} |-> p[k]]

\* A log that keeps one entry for each user and task identifier, the latest.
Logged_LatestPerTask(entries, entry) ==
    Append(SelectSeq(entries, LAMBDA e :
               ~(e.user_id = entry.user_id /\ e.task_id = entry.task_id)),
           entry)

\* The log with one more entry at its end.
Logged(entries, entry) == Append(entries, entry)

\* log: appends unconditionally and acknowledges.
LogEntry(p) ==
    /\ Get(p, "action", "") = "log"
    /\ Len(history) < MaxLog
    /\ history' = Logged(history, Entry(p))
    /\ req' = p
    /\ res' = [status |-> "logged", entry |-> Entry(p)]
    /\ UNCHANGED <<doc, now, inflight>>

\* A selection that forgets whose entries it is counting.
Qualifying_AnyUser(entries, user_id, time_range, today) ==
    SelectSeq(entries, LAMBDA e : e.completed_at >= today - WindowDays(time_range))

\* The entries of the user inside the trailing window.
Qualifying(entries, user_id, time_range, today) ==
    SelectSeq(entries, LAMBDA e :
        /\ e.user_id = user_id
        /\ e.completed_at >= today - WindowDays(time_range))

RECURSIVE TotalDuration(_)
TotalDuration(entries) ==
    IF Len(entries) = 0 THEN 0
    ELSE Head(entries).duration_minutes + TotalDuration(Tail(entries))

\* count, average duration in whole minutes, on-time rate in percent, and
\* the number of entries of each priority that occurs.
Aggregate(entries) ==
    [ count                 |-> Len(entries),
      average_duration      |-> TotalDuration(entries) \div Len(entries),
      on_time_rate          |->
          (100 * Len(SelectSeq(entries, LAMBDA e : e.was_on_time))) \div Len(entries),
      priority_distribution |-> CountBy(entries, "priority", "") ]

\* analyze: insufficient_data below the minimum, the aggregate from it on.
Analyze(p) ==
    /\ Get(p, "action", "") = "analyze"
    /\ req' = p
    /\ LET entries == Qualifying(history, p.user_id, p.time_range, now) IN
       res' = IF Len(entries) < MIN_HISTORY_ENTRIES
              THEN [status |-> "insufficient_data"]
              ELSE Aggregate(entries)
    /\ UNCHANGED <<doc, now, history, inflight>>

RecommendRequests ==
    { [action |-> "recommend", user_id |-> "u1", time_range |-> r] :
          r \in {"week", "month"} }

\* The rule table: a low on-time rate suggests buffer time, a long average
\* duration suggests fewer tasks a day.
Recommendations(aggregate) ==
    (IF aggregate.on_time_rate < 70
     THEN <<"Add buffer time to your estimates">> ELSE <<>>)
    \o (IF aggregate.average_duration > 45
        THEN <<"Block fewer tasks per day">> ELSE <<>>)

\* recommend: runs analyze and derives the suggestions from its aggregate.
Recommend(p) ==
    /\ Get(p, "action", "") = "recommend"
    /\ req' = p
    /\ LET entries == Qualifying(history, p.user_id, p.time_range, now) IN
       res' = IF Len(entries) < MIN_HISTORY_ENTRIES
              THEN [status |-> "insufficient_data", recommendations |-> <<>>]
              ELSE [recommendations |-> Recommendations(Aggregate(entries))]
    /\ UNCHANGED <<doc, now, history, inflight>>

NextWorkflow ==
    \/ \E p \in LogRequests : LogEntry(p)
    \/ \E p \in AnalyzeRequests : Analyze(p)
    \/ \E p \in RecommendRequests : Recommend(p)

SpecWorkflow == Init /\ [][NextWorkflow]_vars

\* ------------------------------------------------------------- date spec
\* check_conflict and working_days of the date utility,
\* tools/date_calculator.py, as its specification and the calls of
\* tests/test_system.py describe them: functions of the request, req, whose
\* response is res once the call has returned.  Event instants are whole
\* minutes, written and parsed as isoformat and fromisoformat do.
Max(a, b) == IF a >= b THEN a ELSE b

Min(a, b) == IF a <= b THEN a ELSE b

ConflictRequests ==
    { [action |-> "check_conflict",
       event1_start |-> isoformat(s1), event1_end |-> isoformat(e1),
       event2_start |-> isoformat(s2), event2_end |-> isoformat(e2)] :
          s1 \in IsoInstants, e1 \in IsoInstants,
          s2 \in IsoInstants, e2 \in IsoInstants }

\* An overlap measured from the second start to the first end.
ConflictResponse_FirstThenSecond(p) ==
    LET overlap == fromisoformat(p.event1_end) - fromisoformat(p.event2_start) IN
    [has_conflict    |-> overlap > 0,
     overlap_minutes |-> IF overlap > 0 THEN overlap ELSE 0]

\* The intersection of the two intervals: a conflict when it has a positive
\* length, which is then the overlap.
ConflictResponse(p) ==
    LET overlap == Min(fromisoformat(p.event1_end), fromisoformat(p.event2_end))
                     - Max(fromisoformat(p.event1_start), fromisoformat(p.event2_start))
    IN  [has_conflict    |-> overlap > 0,
         overlap_minutes |-> IF overlap > 0 THEN overlap ELSE 0]

CheckConflict ==
    /\ req.action = "check_conflict"
    /\ res = NoResponse
    /\ res' = ConflictResponse(req)
    /\ UNCHANGED <<doc, now, req, history, inflight>>

\* The first two weeks of 2024; the first day is a Monday.
Dates ==
    << "2024-01-01", "2024-01-02", "2024-01-03", "2024-01-04", "2024-01-05",
       "2024-01-06", "2024-01-07", "2024-01-08", "2024-01-09", "2024-01-10",
       "2024-01-11", "2024-01-12", "2024-01-13", "2024-01-14" >>

\* The day a date string denotes, counted from 2024-01-01 as 1.
DayOf(date) == CHOOSE d \in 1..Len(Dates) : Dates[d] = date

\* date.weekday(): Monday is 0 and Sunday 6.
Weekday(d) == (d - 1) % 7

WorkingDaysRequests ==
    { [action |-> "working_days", start_date |-> Dates[a], end_date |-> Dates[b]] :
          a \in 1..Len(Dates), b \in 1..Len(Dates) }

\* The days from lo through hi that fall on a weekend.
RECURSIVE WeekendDays(_, _)
WeekendDays(lo, hi) ==
    IF lo > hi THEN 0
    ELSE (IF Weekday(lo) >= 5 THEN 1 ELSE 0) + WeekendDays(lo + 1, hi)

\* A count that stops the day before the later date.
WorkingDaysResponse_EndExcluded(p) ==
    LET lo == Min(DayOf(p.start_date), DayOf(p.end_date))
        hi == Max(DayOf(p.start_date), DayOf(p.end_date)) - 1
    IN  [working_days |-> (hi - lo + 1) - WeekendDays(lo, hi),
         weekend_days |-> WeekendDays(lo, hi)]

\* The inclusive span between the two dates, in either order, split into
\* weekend days and the rest.
WorkingDaysResponse(p) ==
    LET lo == Min(DayOf(p.start_date), DayOf(p.end_date))
        hi == Max(DayOf(p.start_date), DayOf(p.end_date))
    IN  [working_days |-> (hi - lo + 1) - WeekendDays(lo, hi),
         weekend_days |-> WeekendDays(lo, hi)]

WorkingDays ==
    /\ req.action = "working_days"
    /\ res = NoResponse
    /\ res' = WorkingDaysResponse(req)
    /\ UNCHANGED <<doc, now, req, history, inflight>>

\* The call has been made with request req and has not returned yet.
InitDate ==
    /\ now = 0
    /\ doc = [tasks |-> <<>>, last_updated |-> isoformat(0)]
    /\ req \in ConflictRequests \cup WorkingDaysRequests
    /\ res = NoResponse
    /\ history = <<>>
    /\ inflight = Idle

NextDate ==
    \/ CheckConflict
    \/ WorkingDays

SpecDate == InitDate /\ [][NextDate]_vars

\* ----------------------------------------------------------- properties
\* The response reports success.
Succeeded(r) == "status" \in DOMAIN r /\ r.status = "success"

\* The response is {error: message}.
IsError(r) == DOMAIN r = {"error"}

\* The instant a stored timestamp denotes.
Stamp(s) == fromisoformat(s)

\* The request names no identifier, or one no record of tasks carries.
NamesNoRecord(p, tasks) ==
    IF "task_id" \in DOMAIN p
    THEN p.task_id = "" \/ \A i \in 1..Len(tasks) : tasks[i].id # p.task_id
    ELSE TRUE

\* The first record of tasks that carries the identifier.
Named(tasks, id) ==
    CHOOSE i \in 1..Len(tasks) :
        tasks[i].id = id /\ \A j \in 1..(i-1) : tasks[j].id # id

Unfiltered == [action |-> "load"]

\* C1: no two stored records have the same id, in every state reachable by
\* save, update and delete requests.
C1_UniqueIds ==
    \A i, j \in 1..Len(doc.tasks) :
        i # j => doc.tasks[i].id # doc.tasks[j].id

\* C2: after a successful save an unfiltered load returns the previous list,
\* every record unchanged and in place, followed by exactly the record the
\* save returned, and the count has grown by 1.
C2_SaveAppends ==
    [][ (req'.action = "save" /\ Succeeded(res')) =>
            LET before == LoadResponse(doc, Unfiltered)
                after  == LoadResponse(doc', Unfiltered)
            IN  /\ after.count = before.count + 1
                /\ Len(after.tasks) = after.count
                /\ after.tasks[after.count] = res'.task
                /\ SubSeq(after.tasks, 1, before.count) = before.tasks
      ]_vars

C2_Witness ==
    /\ req.action = "save"
    /\ "title" \in DOMAIN req
    /\ Succeeded(res)
    /\ Len(doc.tasks) = 2
    /\ doc.tasks[2] = res.task
    /\ doc.tasks[1] # res.task

\* C3: a successful update shows every supplied field (title, description,
\* priority, status, deadline, estimated_duration, tags) with the supplied
\* value, every other field except updated_at with its previous value, and
\* every other record unchanged, in the returned record and in the store.
SuppliableFields ==
    {"title", "description", "priority", "status", "deadline",
     "estimated_duration", "tags"}

C3_UpdateFrame ==
    [][ (req'.action = "update" /\ Succeeded(res')) =>
            /\ Len(doc'.tasks) = Len(doc.tasks)
            /\ \A i \in 1..Len(doc.tasks) :
                  IF doc.tasks[i].id = req'.task_id
                  THEN /\ res'.task = doc'.tasks[i]
                       /\ \A f \in (DOMAIN doc.tasks[i]) \ {"updated_at"} :
                             IF f \in SuppliableFields /\ f \in DOMAIN req'
                             THEN doc'.tasks[i][f] = req'[f]
                             ELSE doc'.tasks[i][f] = doc.tasks[i][f]
                  ELSE doc'.tasks[i] = doc.tasks[i]
      ]_vars

\* C4 as claimed: every successful update leaves the record's updated_at
\* strictly greater than it was before the update.
C4_StrictlyIncreases ==
    [][ (req'.action = "update" /\ Succeeded(res')) =>
            LET i == Named(doc.tasks, req'.task_id) IN
            Stamp(doc'.tasks[i].updated_at) > Stamp(doc.tasks[i].updated_at)
      ]_vars

\* C4 as amended: a successful update stamps the record's updated_at with a
\* clock reading taken during the update, which is no earlier than the last
\* reading before it and so never less than the previous value; and in no
\* step of any request does the updated_at of a record that stays in the
\* store decrease.
C4_NeverDecreases ==
    [][ /\ (req'.action = "update" /\ Succeeded(res')) =>
               LET i == Named(doc.tasks, req'.task_id) IN
               /\ Stamp(doc'.tasks[i].updated_at) >= Stamp(doc.tasks[i].updated_at)
               /\ Stamp(doc'.tasks[i].updated_at) >= now
               /\ Stamp(doc'.tasks[i].updated_at) <= now'
        /\ Len(doc'.tasks) >= Len(doc.tasks) =>
               \A i \in 1..Len(doc.tasks) :
                   Stamp(doc'.tasks[i].updated_at) >= Stamp(doc.tasks[i].updated_at)
        /\ Len(doc'.tasks) < Len(doc.tasks) =>
               \A j \in 1..Len(doc'.tasks) :
                   \E i \in 1..Len(doc.tasks) : doc'.tasks[j] = doc.tasks[i]
      ]_vars

C4_Witness ==
    /\ req.action = "update"
    /\ Succeeded(res)
    /\ Stamp(res.task.updated_at) > Stamp(res.task.created_at)
    /\ \E i \in 1..Len(doc.tasks) : doc.tasks[i] = res.task

\* C5: an update or a delete whose task_id is missing, empty or carried by no
\* stored record returns {error: ...} and leaves the document unchanged: the
\* same records in the same order and the same last_updated.
C5_AbsentIdRejected ==
    [][ (req'.action \in {"update", "delete"} /\ NamesNoRecord(req', doc.tasks)) =>
            /\ IsError(res')
            /\ doc'.tasks = doc.tasks
            /\ doc'.last_updated = doc.last_updated
      ]_vars

C5_Witness ==
    /\ req.action \in {"update", "delete"}
    /\ "task_id" \in DOMAIN req
    /\ req.task_id = "task_9_9"
    /\ IsError(res)
    /\ Len(doc.tasks) = 2

\* C6: right after a successful delete of an id, a load with any filter or
\* none returns no record carrying that id.
C6_DeletedIdGone ==
    [][ (req'.action = "delete" /\ Succeeded(res')) =>
            \A p \in LoadRequests :
                LET loaded == LoadResponse(doc', p).tasks IN
                \A i \in 1..Len(loaded) : loaded[i].id # req'.task_id
      ]_vars

C6_Witness ==
    /\ req.action = "delete"
    /\ Succeeded(res)
    /\ Len(doc.tasks) > 0
    /\ \A i \in 1..Len(doc.tasks) : doc.tasks[i].id # req.task_id

\* C7: a successful delete removes exactly one record: remaining_tasks is
\* the count before the delete minus 1 and the other records stay, unchanged
\* and in their order.
C7_DeleteRemovesOne ==
    [][ (req'.action = "delete" /\ Succeeded(res')) =>
            /\ res'.remaining_tasks = Len(doc.tasks) - 1
            /\ Len(doc'.tasks) = Len(doc.tasks) - 1
            /\ \E k \in 1..Len(doc.tasks) :
                  /\ doc.tasks[k].id = req'.task_id
                  /\ doc'.tasks = SubSeq(doc.tasks, 1, k - 1)
                                    \o SubSeq(doc.tasks, k + 1, Len(doc.tasks))
      ]_vars

\* C8: a load returns exactly the stored records whose status equals the
\* supplied status and whose priority equals the supplied priority, for every
\* supplied string including the empty one, in store order, with count the
\* number of records returned; without filter keys it returns every record.
C8_FilterExact ==
    (req.action = "load") =>
        /\ res.tasks =
              SelectSeq(doc.tasks,
                  LAMBDA t : /\ "status" \in DOMAIN req => t.status = req.status
                             /\ "priority" \in DOMAIN req => t.priority = req.priority)
        /\ res.count = Len(res.tasks)

\* C9: in every store state, the empty store included, report returns a
\* summary with total_tasks equal to the number of records, the counts per
\* status and per priority, and a completion rate of completed/total as a
\* percentage, 0 when there are no records.
C9_ReportTotals ==
    (req.action = "report") =>
        LET n         == Len(doc.tasks)
            completed == Cardinality({ i \in 1..n : doc.tasks[i].status = "completed" })
        IN  /\ "total_tasks" \in DOMAIN res.summary
            /\ res.summary.total_tasks = n
            /\ \A i \in 1..n :
                  /\ res.summary.by_status[doc.tasks[i].status] =
                        Cardinality({ j \in 1..n : doc.tasks[j].status = doc.tasks[i].status })
                  /\ res.summary.by_priority[doc.tasks[i].priority] =
                        Cardinality({ j \in 1..n : doc.tasks[j].priority = doc.tasks[i].priority })
            /\ "completion_rate" \in DOMAIN res
            /\ IF n = 0 THEN res.completion_rate = 0
               ELSE /\ 2 * n * res.completion_rate >= 2 * 1000 * completed - n
                    /\ 2 * n * res.completion_rate <= 2 * 1000 * completed + n

\* C10: on a non-empty store, report's overdue_tasks is the number of records
\* whose deadline is an instant before the current time, the instant the
\* report reads from the clock, and whose status is not "completed"; records
\* with no deadline and completed records are not counted.
PastDue(task, t) ==
    /\ task.deadline # ""
    /\ \E d \in IsoInstants : isoformat(d) = task.deadline /\ d < t
    /\ task.status # "completed"

C10_OverdueCount ==
    [][ (req'.action = "report" /\ Len(doc.tasks) > 0) =>
            /\ \E t \in now..now' :
                  res'.summary.overdue_tasks =
                      Cardinality({ i \in 1..Len(doc.tasks) : PastDue(doc.tasks[i], t) })
            /\ res'.summary.overdue_tasks <=
                  Cardinality({ i \in 1..Len(doc.tasks) :
                                   /\ doc.tasks[i].deadline # ""
                                   /\ doc.tasks[i].status # "completed" })
      ]_vars

C10_Witness ==
    /\ req.action = "report"
    /\ Len(doc.tasks) = 2
    /\ "total_tasks" \in DOMAIN res.summary
    /\ res.summary.overdue_tasks = 1
    /\ \A i \in 1..2 : doc.tasks[i].deadline = isoformat(0)
    /\ \E i \in 1..2 : doc.tasks[i].status = "completed"

\* C11: an export with format json returns as data exactly the stored record
\* list (same records, fields and order), which is also the list an
\* unfiltered load returns, with count the number of stored records; the
\* export leaves the store as it was.
C11_ExportIsStore ==
    [][ (req'.action = "export" /\ Get(req', "format", "json") = "json") =>
            /\ res'.format = "json"
            /\ res'.data = doc.tasks
            /\ res'.data = LoadResponse(doc, Unfiltered).tasks
            /\ res'.count = Len(doc.tasks)
            /\ doc' = doc
      ]_vars

C11_Witness ==
    /\ req.action = "export"
    /\ Get(req, "format", "") = "json"
    /\ Len(doc.tasks) = 2
    /\ doc.tasks[1] # doc.tasks[2]
    /\ res.data = doc.tasks
    /\ res.count = 2

\* C12: whatever the input string is (malformed JSON, JSON that is not an
\* object, an unknown or missing action, missing required fields, a stored
\* record lacking an expected key) the call returns one structured response
\* and raises nothing; malformed input, non-object input and unknown or
\* missing actions are answered {error: message} with the file left as it was.
Structured(r) ==
    /\ "raised" \notin DOMAIN r
    /\ DOMAIN r \cap {"error", "status", "tasks", "summary", "format"} # {}

C12_AlwaysAnswers ==
    [][ req' # Constructed =>
            /\ Structured(res')
            /\ ("raw" \in DOMAIN req' \/ Get(req', "action", "") \notin Actions) =>
                  (IsError(res') /\ doc' = doc)
      ]_vars

C12_Witness ==
    /\ "raw" \in DOMAIN req
    /\ req.raw = "[1, 2]"
    /\ IsError(res)
    /\ ~ReadFails(doc)
    /\ Len(doc.tasks) = 2
    /\ "id" \notin DOMAIN doc.tasks[1]

\* C13: an operation that cannot read the file (absent or damaged) answers
\* with an error and leaves the file as it was, a load of an absent file,
\* which answers the empty list, excepted: save, update and delete write only
\* after a successful read.
C13_FaultKeepsFile ==
    [][ (/\ ReadFails(doc)
         /\ Get(req', "action", "") \in Actions
         /\ ~(req'.action = "load" /\ "missing" \in DOMAIN doc)) =>
            (IsError(res') /\ doc' = doc)
      ]_vars

\* C14: a stored record keeps the id and created_at it was created with: an
\* update, whatever keys it carries (id and created_at included), leaves
\* both as they were in every record; a save leaves them so in the records
\* already stored; the records a delete leaves are records stored before.
C14_IdAndCreationKept ==
    [][ /\ req'.action = "update" =>
              /\ Len(doc'.tasks) = Len(doc.tasks)
              /\ \A i \in 1..Len(doc.tasks) :
                    /\ doc'.tasks[i].id = doc.tasks[i].id
                    /\ doc'.tasks[i].created_at = doc.tasks[i].created_at
        /\ (req'.action = "update" /\ Succeeded(res')) =>
              /\ res'.task.id = req'.task_id
              /\ \E i \in 1..Len(doc.tasks) :
                    /\ doc.tasks[i].id = res'.task.id
                    /\ doc.tasks[i].created_at = res'.task.created_at
        /\ req'.action = "save" =>
              \A i \in 1..Len(doc.tasks) :
                    /\ doc'.tasks[i].id = doc.tasks[i].id
                    /\ doc'.tasks[i].created_at = doc.tasks[i].created_at
        /\ req'.action = "delete" =>
              \A i \in 1..Len(doc'.tasks) :
                  \E j \in 1..Len(doc.tasks) : doc'.tasks[i] = doc.tasks[j]
      ]_vars

C14_Witness ==
    /\ req.action = "update"
    /\ "id" \in DOMAIN req
    /\ "created_at" \in DOMAIN req
    /\ Succeeded(res)
    /\ res.task.id = req.task_id
    /\ res.task.id # req.id
    /\ res.task.created_at # req.created_at
    /\ res.task.title = req.title
    /\ \E i \in 1..Len(doc.tasks) : doc.tasks[i] = res.task

\* C15: the record a save creates has priority "medium", status "pending",
\* estimated_duration 60 and no tags where the request omits them, every
\* field the request supplies as supplied, and created_at and updated_at
\* read from the clock during the call; it is the record stored.
SaveDefaults ==
    [priority |-> "medium", status |-> "pending", estimated_duration |-> 60,
     tags |-> <<>>]

C15_SaveDefaults ==
    [][ req'.action = "save" =>
            /\ Succeeded(res')
            /\ doc'.tasks[Len(doc'.tasks)] = res'.task
            /\ \A k \in DOMAIN SaveDefaults :
                  k \notin DOMAIN req' => res'.task[k] = SaveDefaults[k]
            /\ \A k \in SuppliableFields \cap DOMAIN req' : res'.task[k] = req'[k]
            /\ now <= Stamp(res'.task.created_at)
            /\ Stamp(res'.task.created_at) <= Stamp(res'.task.updated_at)
            /\ Stamp(res'.task.updated_at) <= now'
      ]_vars

C15_Witness ==
    /\ req = [action |-> "save", status |-> "completed"]
    /\ Succeeded(res)
    /\ res.task.status = "completed"
    /\ res.task.priority = "medium"
    /\ res.task.estimated_duration = 60
    /\ res.task.tags = <<>>
    /\ Stamp(res.task.created_at) = MaxClock
    /\ Len(doc.tasks) = 2
    /\ doc.tasks[2] = res.task
    /\ doc.tasks[1].tags = <<"x", "y">>

\* The argument of the last prioritize call and the list it returned.
Prioritized == "tasks_json" \in DOMAIN req /\ res # NoResponse

\* Every task of the list carries urgency and importance in 1..10.
OnScale(tasks) ==
    \A k \in 1..Len(tasks) :
        /\ {"urgency", "importance"} \subseteq DOMAIN tasks[k]
        /\ tasks[k].urgency \in 1..10
        /\ tasks[k].importance \in 1..10

\* An output task without the three keys prioritize adds.
Unlabelled(task) ==
    [k \in DOMAIN task \ {"priority_score", "quadrant", "priority_level"} |-> task[k]]

\* The ways of pairing each output position with a distinct input position
\* holding the same task.
Pairings(in, out) ==
    { f \in [1..Len(out) -> 1..Len(in)] :
        /\ \A k, l \in 1..Len(out) : k # l => f[k] # f[l]
        /\ \A k \in 1..Len(out) : Unlabelled(out[k]) = in[f[k]] }

\* C16: for a list of tasks with urgency and importance in 1..10, the output
\* is the same tasks, each carrying as priority_score its score
\* 0.4*urgency + 0.6*importance (here in tenths), in an order along which the
\* score never rises.
C16_DescendingScore ==
    (Prioritized /\ OnScale(req.tasks_json)) =>
        LET in  == req.tasks_json
            out == res.prioritized_tasks
        IN  /\ Len(out) = Len(in)
            /\ Pairings(in, out) # {}
            /\ \A k \in 1..Len(out) :
                  out[k].priority_score = 4 * out[k].urgency + 6 * out[k].importance
            /\ \A k \in 1..(Len(out) - 1) :
                  4 * out[k].urgency + 6 * out[k].importance
                      >= 4 * out[k+1].urgency + 6 * out[k+1].importance

C16_Witness ==
    /\ Prioritized
    /\ req.tasks_json = << [urgency |-> 1, importance |-> 3],
                           [urgency |-> 10, importance |-> 7] >>
    /\ res.prioritized_tasks[1].urgency = 10
    /\ res.prioritized_tasks[1].priority_score = 82
    /\ res.prioritized_tasks[2].priority_score = 22

\* The quadrant and level the thresholds of the claim give a task, with
\* the four names as the claim spells them.
NamedQuadrant(task) ==
    IF task.urgency > 6 /\ task.importance > 6
    THEN [quadrant |-> "DO FIRST", priority_level |-> "critical"]
    ELSE IF task.importance > 6 /\ task.urgency <= 6
    THEN [quadrant |-> "SCHEDULE", priority_level |-> "high"]
    ELSE IF task.urgency > 6 /\ task.importance <= 6
    THEN [quadrant |-> "DELEGATE", priority_level |-> "medium"]
    ELSE [quadrant |-> "ELIMINATE", priority_level |-> "low"]

\* The text the quadrant key holds for each name: the name, then what it
\* means.
QuadrantText(name) ==
    CASE name = "DO FIRST"  -> "DO FIRST - Urgent & Important"
      [] name = "SCHEDULE"  -> "SCHEDULE - Not Urgent but Important"
      [] name = "DELEGATE"  -> "DELEGATE - Urgent but Not Important"
      [] name = "ELIMINATE" -> "ELIMINATE - Neither Urgent nor Important"

\* C17 as stated: every task with urgency and importance in 1..10 comes back
\* with quadrant "DO FIRST" and level critical when both exceed 6, "SCHEDULE"
\* and high when only importance does, "DELEGATE" and medium when only
\* urgency does, "ELIMINATE" and low otherwise; 6 itself is not high.
C17_QuadrantNames ==
    (Prioritized /\ OnScale(req.tasks_json)) =>
        \A k \in 1..Len(res.prioritized_tasks) :
            LET task == res.prioritized_tasks[k] IN
            /\ task.quadrant = NamedQuadrant(task).quadrant
            /\ task.priority_level = NamedQuadrant(task).priority_level

\* C17 amended: the same thresholds and levels, the quadrant key holding the
\* name followed by its meaning, "DO FIRST - Urgent & Important",
\* "SCHEDULE - Not Urgent but Important", "DELEGATE - Urgent but Not
\* Important" or "ELIMINATE - Neither Urgent nor Important".
C17_QuadrantTexts ==
    (Prioritized /\ OnScale(req.tasks_json)) =>
        \A k \in 1..Len(res.prioritized_tasks) :
            LET task == res.prioritized_tasks[k] IN
            /\ task.quadrant = QuadrantText(NamedQuadrant(task).quadrant)
            /\ task.priority_level = NamedQuadrant(task).priority_level

C17_Witness ==
    /\ Prioritized
    /\ req.tasks_json = << [urgency |-> 7, importance |-> 6],
                           [urgency |-> 6, importance |-> 7] >>
    /\ res.prioritized_tasks[1].urgency = 6
    /\ res.prioritized_tasks[1].quadrant = "SCHEDULE - Not Urgent but Important"
    /\ res.prioritized_tasks[1].priority_level = "high"
    /\ res.prioritized_tasks[2].quadrant = "DELEGATE - Urgent but Not Important"
    /\ res.prioritized_tasks[2].priority_level = "medium"

\* C18: tasks of equal score come out in the order they went in: the output
\* positions can be paired with the input positions holding the same tasks
\* so that, among tasks of equal score, the pairing keeps the order.
C18_StableSort ==
    Prioritized =>
        LET in  == req.tasks_json
            out == res.prioritized_tasks
        IN  \E f \in Pairings(in, out) :
                \A k, l \in 1..Len(out) :
                    (k < l /\ out[k].priority_score = out[l].priority_score)
                        => f[k] < f[l]

C18_Witness ==
    /\ Prioritized
    /\ req.tasks_json = << [urgency |-> 6, importance |-> 6],
                           [urgency |-> 3, importance |-> 8] >>
    /\ res.prioritized_tasks[1].priority_score = res.prioritized_tasks[2].priority_score
    /\ res.prioritized_tasks[1].urgency = 6
    /\ res.prioritized_tasks[2].urgency = 3

\* The argument of the worked example.
Example == << [urgency |-> 8, importance |-> 8], [urgency |-> 3, importance |-> 3] >>

\* C19 as stated: on the example the quadrants are, in order, "DO FIRST" and
\* "ELIMINATE" and the scores 8.0 and 3.0 (80 and 30 tenths).
C19_ExampleNames ==
    (Prioritized /\ req.tasks_json = Example) =>
        /\ Len(res.prioritized_tasks) = 2
        /\ res.prioritized_tasks[1].quadrant = "DO FIRST"
        /\ res.prioritized_tasks[2].quadrant = "ELIMINATE"
        /\ res.prioritized_tasks[1].priority_score = 80
        /\ res.prioritized_tasks[2].priority_score = 30

\* C19 amended: on the example the quadrants are, in order,
\* "DO FIRST - Urgent & Important" and "ELIMINATE - Neither Urgent nor
\* Important", for the tasks of urgency 8 and 3, and the scores 8.0 and 3.0.
C19_ExampleTexts ==
    (Prioritized /\ req.tasks_json = Example) =>
        /\ Len(res.prioritized_tasks) = 2
        /\ res.prioritized_tasks[1].quadrant = "DO FIRST - Urgent & Important"
        /\ res.prioritized_tasks[2].quadrant = "ELIMINATE - Neither Urgent nor Important"
        /\ res.prioritized_tasks[1].urgency = 8
        /\ res.prioritized_tasks[2].urgency = 3
        /\ res.prioritized_tasks[1].priority_score = 80
        /\ res.prioritized_tasks[2].priority_score = 30

C19_Witness ==
    /\ Prioritized
    /\ req.tasks_json = Example
    /\ res.prioritized_tasks[1].priority_level = "critical"
    /\ res.prioritized_tasks[2].priority_level = "low"

\* C20: analyze answers insufficient_data, which is no error, whenever fewer
\* than 5 entries of the user lie in the trailing window, and a populated
\* aggregate (count, average duration, on-time rate, priority distribution)
\* whenever at least 5 do; entries of other users and entries outside the
\* window are not counted.
InWindowOf(user_id, time_range) ==
    { i \in 1..Len(history) :
        /\ history[i].user_id = user_id
        /\ history[i].completed_at >= now - WindowDays(time_range) }

C20_AnalyzeMinimum ==
    req.action = "analyze" =>
        LET n == Cardinality(InWindowOf(req.user_id, req.time_range)) IN
        /\ "error" \notin DOMAIN res
        /\ n < 5 => res = [status |-> "insufficient_data"]
        /\ n >= 5 =>
              /\ DOMAIN res = {"count", "average_duration", "on_time_rate",
                               "priority_distribution"}
              /\ res.count = n

C20_Witness ==
    /\ req = [action |-> "analyze", user_id |-> "u1", time_range |-> "week"]
    /\ Len(history) = 6
    /\ "count" \in DOMAIN res
    /\ res.count = 5
    /\ \E i \in 1..6 : history[i].user_id = "u2"

\* C21: the workflow log is append-only: every log request is answered
\* "logged" and puts exactly its entry at the end of the log, whether or not
\* an entry with its task identifier is there already; analyze and recommend
\* leave the log as it was; so the log grows by one with every log request
\* and by nothing else, and no entry in it is ever changed or removed.
C21_AppendOnly ==
    [][ /\ req'.action = "log" =>
              /\ res'.status = "logged"
              /\ Len(history') = Len(history) + 1
              /\ SubSeq(history', 1, Len(history)) = history
              /\ history'[Len(history')] = Entry(req')
              /\ res'.entry = Entry(req')
        /\ req'.action \in {"analyze", "recommend"} => history' = history
      ]_vars

C21_Witness ==
    /\ req.action = "log"
    /\ res.status = "logged"
    /\ Len(history) = 3
    /\ history[3] = Entry(req)
    /\ history[1] = history[3]
    /\ history[2].user_id = history[3].user_id
    /\ history[2].task_id = history[3].task_id
    /\ history[2] # history[3]

\* The request with its two events exchanged.
EventsSwapped(p) ==
    [action |-> p.action,
     event1_start |-> p.event2_start, event1_end |-> p.event2_end,
     event2_start |-> p.event1_start, event2_end |-> p.event1_end]

\* The instants the two events of the request share, as the minutes
\* [m, m + 1] lying inside both.
SharedMinutes(p) ==
    { m \in IsoInstants :
        /\ Stamp(p.event1_start) <= m /\ m + 1 <= Stamp(p.event1_end)
        /\ Stamp(p.event2_start) <= m /\ m + 1 <= Stamp(p.event2_end) }

\* C22: check_conflict answers the same with its two events exchanged;
\* has_conflict holds exactly when the intervals share an open overlap;
\* overlap_minutes is the length of the intersection, and 0 whenever
\* has_conflict is false, as for intervals that only touch.
C22_ConflictSymmetric ==
    (req.action = "check_conflict" /\ res # NoResponse) =>
        /\ res = ConflictResponse(EventsSwapped(req))
        /\ res.has_conflict = (SharedMinutes(req) # {})
        /\ res.overlap_minutes = Cardinality(SharedMinutes(req))
        /\ ~res.has_conflict => res.overlap_minutes = 0

C22_Witness ==
    /\ req.action = "check_conflict"
    /\ res # NoResponse
    /\ Stamp(req.event1_start) = 1 /\ Stamp(req.event1_end) = MaxClock + 1
    /\ Stamp(req.event2_start) = 0 /\ Stamp(req.event2_end) = 1
    /\ ~res.has_conflict
    /\ res.overlap_minutes = 0

\* The days of the inclusive span between the two dates of the request.
Span(p) ==
    { d \in 1..Len(Dates) :
        \/ DayOf(p.start_date) <= d /\ d <= DayOf(p.end_date)
        \/ DayOf(p.end_date) <= d /\ d <= DayOf(p.start_date) }

\* C23: working_days answers with weekend_days the number of Saturdays and
\* Sundays in the inclusive span between the two dates and with working_days
\* the other days of the span, so that the two add up to the span; the
\* answer is the same with the dates exchanged; from 2024-01-01, a Monday,
\* to 2024-01-07, a Sunday, it is 5 working days and 2 weekend days.
C23_WorkingDays ==
    (req.action = "working_days" /\ res # NoResponse) =>
        /\ res.weekend_days = Cardinality({ d \in Span(req) : Weekday(d) \in {5, 6} })
        /\ res.working_days = Cardinality({ d \in Span(req) : Weekday(d) \in 0..4 })
        /\ res.working_days + res.weekend_days = Cardinality(Span(req))
        /\ res = WorkingDaysResponse([action |-> "working_days",
                                      start_date |-> req.end_date,
                                      end_date |-> req.start_date])
        /\ (req.start_date = "2024-01-01" /\ req.end_date = "2024-01-07") =>
              res = [working_days |-> 5, weekend_days |-> 2]

C23_Witness ==
    /\ req = [action |-> "working_days", start_date |-> "2024-01-01",
              end_date |-> "2024-01-07"]
    /\ res = [working_days |-> 5, weekend_days |-> 2]

\* Both callers have had their save answered.
BothDone == \A c \in Callers : inflight[c].pc = "done"

\* Both calls read the file before either opened it for writing.
ReadTogether == \A c \in Callers : inflight[c].met \in {"idle", "read", "built"}

\* One call had returned when the other read the file.
OneAfterOther == \E c \in Callers : inflight[c].met = "done"

\* The record of caller c is in the file.
Kept(c) ==
    /\ ~ReadFails(doc)
    /\ \E i \in 1..Len(doc.tasks) : doc.tasks[i] = inflight[c].task

\* C24: two saves on the one file, nothing keeping them apart: both answer
\* success; when both read the file before either wrote it, the file ends
\* with what they read and one new record only, that of one of the two; when
\* one ran after the other, the file ends with both new records.  A file that
\* ends with the shorter document written over the longer one holds neither.
C24_LostUpdate ==
    BothDone =>
        /\ \A c \in Callers : Succeeded(inflight[c].response)
        /\ ReadTogether =>
              /\ ~ReadFails(doc)
              /\ Len(doc.tasks) = Len(inflight["a"].read.tasks) + 1
              /\ SubSeq(doc.tasks, 1, Len(doc.tasks) - 1) = inflight["a"].read.tasks
              /\ doc.tasks[Len(doc.tasks)] \in { inflight[c].task : c \in Callers }
        /\ OneAfterOther =>
              /\ ~ReadFails(doc)
              /\ Len(doc.tasks) =
                    Min(Len(inflight["a"].read.tasks), Len(inflight["b"].read.tasks)) + 2
              /\ \A c \in Callers : Kept(c)

\* C25: load, report and export only read: whatever their parameters and
\* whatever the file holds, or when there is none, the file after the call
\* is the file before it, records, order and last_updated.
C25_ReadsOnlyRead ==
    [][ Get(req', "action", "") \in {"load", "report", "export"} => doc' = doc ]_vars

C25_Witness ==
    /\ Get(req, "action", "") = "load"
    /\ "status" \in DOMAIN req
    /\ doc = [missing |-> TRUE]
    /\ res = [tasks |-> <<>>, count |-> 0]

\* The stamps of the document are in order: created_at <= updated_at in every
\* record, and no updated_at after last_updated.
StampsOrdered(file) ==
    \A i \in 1..Len(file.tasks) :
        /\ Stamp(file.tasks[i].created_at) <= Stamp(file.tasks[i].updated_at)
        /\ Stamp(file.tasks[i].updated_at) <= Stamp(file.last_updated)

\* C26: with a clock that never runs back, after every save, update and
\* delete each stored record has created_at <= updated_at and the document's
\* last_updated is at or after every record's updated_at; every successful
\* save, update and delete sets last_updated to a reading of the clock taken
\* during the call.
C26_StampsOrdered ==
    [][ /\ StampsOrdered(doc')
        /\ (req'.action \in {"save", "update", "delete"} /\ Succeeded(res')) =>
              /\ now <= Stamp(doc'.last_updated)
              /\ Stamp(doc'.last_updated) = now'
              /\ Stamp(doc.last_updated) <= Stamp(doc'.last_updated)
      ]_vars

C26_Witness ==
    /\ req.action = "delete"
    /\ Succeeded(res)
    /\ Len(doc.tasks) = 1
    /\ Stamp(doc.tasks[1].created_at) < Stamp(doc.tasks[1].updated_at)
    /\ Stamp(doc.tasks[1].updated_at) = Stamp(doc.last_updated)
    /\ Stamp(doc.last_updated) = now

\* C27: in the output every task labelled critical comes before every task
\* labelled high, medium or low.  The order is by score alone, and a task of
\* urgency 6 and importance 10 (high, 8.4) outscores one of urgency 7 and
\* importance 7 (critical, 7.0).
C27_CriticalFirst ==
    (Prioritized /\ OnScale(req.tasks_json)) =>
        LET out == res.prioritized_tasks IN
        \A k, l \in 1..Len(out) :
            (out[k].priority_level = "critical" /\ out[l].priority_level # "critical")
                => k < l
====
